---- MODULE Spec2Model ----
(***************************************************************************)
(* A model of the media-sharing API (src/app/app.py, src/app/db.py,        *)
(* src/app/schemas.py).                                                    *)
(*                                                                         *)
(* Two components are modelled:                                            *)
(*   - the Post Registry: the module-level dict text_posts and the three   *)
(*     synchronous handlers get_posts, create_post and get_post, which the *)
(*     HTTP runtime runs on a pool of worker threads;                      *)
(*   - the File Metadata Store: the posts table and the two coroutine      *)
(*     handlers upload_file and get_files, each running with a session     *)
(*     obtained from the get_async_session dependency.                     *)
(***************************************************************************)
EXTENDS Integers, Sequences, FiniteSets, TLC

VARIABLES
    text_posts,   \* the registry dict: a sequence of [key, value] in insertion order
    pc,           \* per worker thread: where it stands inside create_post
    new_post,     \* per worker thread: create_post's local new_post
    key,          \* per worker thread: the value of max(text_posts.keys()) + 1 it computed
    maxAtCall,    \* per worker thread: max id when its create_post call began (history)
    created,      \* the create_post calls that returned, in order of return (history)
    response,     \* the last response sent by a registry handler
    table,        \* the committed rows of the posts table
    now,          \* the last value datetime.utcnow() returned
    sids,         \* how many sessions async_session_maker() has made
    open,         \* the sessions that are open
    req,          \* per file request: its state (handler position, session, row)
    commits,      \* the requests whose commit succeeded, in commit order (history)
    listing       \* the last 200 response of get_files (body), with what it read (history)

postVars == <<text_posts, pc, new_post, key, maxAtCall, created, response>>
fileVars == <<table, now, sids, open, req, commits, listing>>
vars == <<text_posts, pc, new_post, key, maxAtCall, created, response,
          table, now, sids, open, req, commits, listing>>

----------------------------------------------------------------------------
(* Bounds of the model. *)

\* worker threads of the pool that runs the synchronous handlers
NThreads == 2
\* create_post calls that pass validation
MaxCreates == 2
\* requests to /files/upload and /files
MaxReqs == 3

----------------------------------------------------------------------------
(* The Post Registry. *)

Threads == 1..NThreads

\* The seed of text_posts, ids 1..10.
SeedPosts ==
    << [title |-> "Getting Started with FastAPI",
        content |-> "FastAPI is a modern, fast web framework for building APIs with Python. It is easy to learn and very powerful."],
       [title |-> "Why Use Python for Web APIs",
        content |-> "Python offers a clean syntax, a huge ecosystem of libraries, and excellent community support for backend development."],
       [title |-> "Understanding RESTful Endpoints",
        content |-> "RESTful APIs are based on standard HTTP methods such as GET, POST, PUT, and DELETE to manage resources."],
       [title |-> "FastAPI vs Flask",
        content |-> "While Flask is lightweight and flexible, FastAPI provides built-in data validation and automatic API documentation."],
       [title |-> "Working with Path Parameters",
        content |-> "Path parameters allow you to pass dynamic values in the URL and are commonly used to identify specific resources."],
       [title |-> "Using Query Parameters Effectively",
        content |-> "Query parameters are useful for filtering, sorting, and paginating API responses without changing the endpoint path."],
       [title |-> "Request Validation with Pydantic",
        content |-> "Pydantic models ensure that incoming request data is validated and parsed correctly before reaching your logic."],
       [title |-> "Handling Errors Gracefully",
        content |-> "Proper error handling improves user experience by returning clear messages and appropriate HTTP status codes."],
       [title |-> "Automatic API Documentation",
        content |-> "FastAPI automatically generates interactive API documentation using Swagger UI and ReDoc."],
       [title |-> "Deploying a FastAPI Application",
        content |-> "You can deploy FastAPI apps using tools like Uvicorn, Docker, and cloud platforms such as AWS or Azure."] >>

SeedCount == Len(SeedPosts)

\* ---- the dict operations the handlers use ----

\* d.keys()
DictKeys(d) == {d[i].key : i \in 1..Len(d)}

\* max(d.keys())
DictMax(d) == CHOOSE k \in DictKeys(d) : \A j \in DictKeys(d) : j <= k

\* k in d
DictHas(d, k) == k \in DictKeys(d)

\* d.get(k), for a key that is present
DictGet(d, k) == d[CHOOSE i \in 1..Len(d) : d[i].key = k].value

\* a store that never looks for the key
DictSet_append(d, k, v) == Append(d, [key |-> k, value |-> v])

\* d[k] = v: a present key keeps its place and takes the new value,
\* a new key goes last.
DictSet(d, k, v) ==
    IF DictHas(d, k)
    THEN [i \in 1..Len(d) |-> IF d[i].key = k THEN [key |-> k, value |-> v] ELSE d[i]]
    ELSE Append(d, [key |-> k, value |-> v])

\* list(d.values())
DictValues(d) == [i \in 1..Len(d) |-> d[i].value]

\* a slice one short
Slice_short(seq, n) == SubSeq(seq, 1, IF n - 1 < Len(seq) THEN n - 1 ELSE Len(seq))

\* seq[:n] for n >= 0
Slice(seq, n) == SubSeq(seq, 1, IF n < Len(seq) THEN n ELSE Len(seq))

\* ---- request inputs ----

\* JSON bodies of POST /posts: the fields that are present, each a string.
Bodies ==
    { [title |-> "T", content |-> "C"],
      [title |-> "", content |-> "C"],
      [title |-> "T", content |-> ""],
      [title |-> "T"],
      [content |-> "C"] }

\* a schema with min_length = 1 on both fields
PostCreateValid_nonempty(body) ==
    /\ {"title", "content"} \subseteq DOMAIN body
    /\ body.title # ""
    /\ body.content # ""

\* PostCreate: title: str, content: str, both required.
PostCreateValid(body) == {"title", "content"} \subseteq DOMAIN body

\* PostResponse(title=..., content=...) and its model_dump()
PostResponse(title, content) == [title |-> title, content |-> content]

\* the limit query parameter: ge = 1, le = 100
LimitMin == 1
LimitMax == 100
LimitValid(limit) == limit >= LimitMin /\ limit <= LimitMax

Limits == {LimitMin - 1, LimitMin, SeedCount + 1, LimitMax, LimitMax + 1}
Ids == 0..(SeedCount + MaxCreates + 1)

\* an id that forgets the + 1
NextKey_max(d) == DictMax(d)

\* the next id create_post computes: max(text_posts.keys()) + 1
NextKey(d) == DictMax(d) + 1

\* ---- the handlers ----

\* the pool has a worker free to take a request
IdleWorker == {t \in Threads : pc[t] = "idle"} # {}

\* the pool hands a request to its first free worker
FirstIdle(t) == pc[t] = "idle" /\ \A u \in Threads : u < t => pc[u] # "idle"

\* GET /posts?limit=N, on a free worker
get_posts(limit) ==
    /\ IdleWorker
    /\ response' =
         IF LimitValid(limit)
         THEN [op |-> "list", arg |-> limit, status |-> 200,
               body |-> Slice(DictValues(text_posts), limit)]
         ELSE [op |-> "list", arg |-> limit, status |-> 422, body |-> <<>>]
    /\ UNCHANGED <<text_posts, pc, new_post, key, maxAtCall, created>>
    /\ UNCHANGED fileVars

\* a get_post without the membership test: text_posts.get(id) is None for an absent id
get_post_nocheck(id) ==
    /\ IdleWorker
    /\ response' = [op |-> "get", arg |-> id, status |-> 200,
                    body |-> IF DictHas(text_posts, id) THEN DictGet(text_posts, id)
                             ELSE PostResponse("null", "null")]
    /\ UNCHANGED <<text_posts, pc, new_post, key, maxAtCall, created>>
    /\ UNCHANGED fileVars

\* GET /posts/{id}, on a free worker
get_post(id) ==
    /\ IdleWorker
    /\ response' =
         IF ~DictHas(text_posts, id)
         THEN [op |-> "get", arg |-> id, status |-> 404,
               body |-> [detail |-> "Post not found."]]
         ELSE [op |-> "get", arg |-> id, status |-> 200, body |-> DictGet(text_posts, id)]
    /\ UNCHANGED <<text_posts, pc, new_post, key, maxAtCall, created>>
    /\ UNCHANGED fileVars

\* POST /posts with a body that PostCreate rejects: 422, the handler is not run
create_post_invalid(body) ==
    /\ IdleWorker
    /\ ~PostCreateValid(body)
    /\ response' = [op |-> "create", arg |-> body, status |-> 422,
                    body |-> [detail |-> "validation error"]]
    /\ UNCHANGED <<text_posts, pc, new_post, key, maxAtCall, created>>
    /\ UNCHANGED fileVars

\* the creates that passed validation so far
Started == Len(created) + Cardinality({t \in Threads : pc[t] # "idle"})

\* POST /posts on thread t: the body is parsed, new_post is built (lines 98-101)
\* and dumped (the right-hand side of line 102 is evaluated first)
create_post_begin(t, body) ==
    /\ FirstIdle(t)
    /\ PostCreateValid(body)
    /\ Started < MaxCreates
    /\ new_post' = [new_post EXCEPT ![t] = PostResponse(body.title, body.content)]
    /\ maxAtCall' = [maxAtCall EXCEPT ![t] = DictMax(text_posts)]
    /\ pc' = [pc EXCEPT ![t] = "key"]
    /\ UNCHANGED <<text_posts, key, created, response>>
    /\ UNCHANGED fileVars

\* line 102, the subscript: max(text_posts.keys()) + 1
create_post_key(t) ==
    /\ pc[t] = "key"
    /\ key' = [key EXCEPT ![t] = NextKey(text_posts)]
    /\ pc' = [pc EXCEPT ![t] = "store"]
    /\ UNCHANGED <<text_posts, new_post, maxAtCall, created, response>>
    /\ UNCHANGED fileVars

\* line 102, the store, and line 103, the return
create_post_store(t) ==
    /\ pc[t] = "store"
    /\ text_posts' = DictSet(text_posts, key[t], new_post[t])
    /\ created' = Append(created, [key |-> key[t], post |-> new_post[t],
                                   maxAtCall |-> maxAtCall[t]])
    /\ response' = [op |-> "create", arg |-> new_post[t], status |-> 201,
                    body |-> new_post[t]]
    /\ pc' = [pc EXCEPT ![t] = "idle"]
    /\ UNCHANGED <<new_post, key, maxAtCall>>
    /\ UNCHANGED fileVars

NoResponse == [op |-> "none", arg |-> 0, status |-> 0, body |-> <<>>]
NoPost == PostResponse("", "")

InitPosts ==
    /\ text_posts = [i \in 1..SeedCount |-> [key |-> i, value |-> SeedPosts[i]]]
    /\ pc = [t \in Threads |-> "idle"]
    /\ new_post = [t \in Threads |-> NoPost]
    /\ key = [t \in Threads |-> 0]
    /\ maxAtCall = [t \in Threads |-> 0]
    /\ created = <<>>
    /\ response = NoResponse

----------------------------------------------------------------------------
(* The File Metadata Store. *)

Reqs == 1..MaxReqs
\* the values uuid.uuid4() returns in the model: as many as there are requests
UUIDs == 1..MaxReqs

\* the values datetime.utcnow() returns in the model: an instant per request
Times == 0..MaxReqs

\* the multipart inputs of POST /files/upload: the file part's filename and
\* declared content type, and the caption
Files == { [filename |-> "a.png", content_type |-> "image/png"] }
Captions == {"hi"}

NoRow == [id |-> 0, caption |-> "", url |-> "", file_type |-> "", file_name |-> "",
          created_at |-> -1]

\* Post(caption=..., url=f"/files/{file.filename}", file_type=..., file_name=...):
\* id and created_at are not set until the row is flushed
NewPost(file, caption) ==
    [id |-> 0, caption |-> caption, url |-> "/files/" \o file.filename,
     file_type |-> file.content_type, file_name |-> file.filename, created_at |-> -1]

\* the column defaults, applied when the row is flushed:
\* id = uuid.uuid4(), created_at = datetime.utcnow()
WithDefaults(row, uuid, utcnow) == [row EXCEPT !.id = uuid, !.created_at = utcnow]

\* an INSERT into a table without a primary key
InsertAllowed_nopk(row, rows) == TRUE

\* the constraint of the posts table on an INSERT: id is the primary key
InsertAllowed(row, rows) == \A other \in rows : other.id # row.id

\* an ordering that forgets .desc()
OrderedByCreatedAt_asc(s) ==
    \A i, j \in 1..Len(s) : i < j => s[i].created_at <= s[j].created_at

\* order_by(Post.created_at.desc()): rows with equal created_at come in any order
OrderedByCreatedAt(s) ==
    \A i, j \in 1..Len(s) : i < j => s[i].created_at >= s[j].created_at

\* the results select(Post).order_by(Post.created_at.desc()) can give on rows
QueryResults(rows) ==
    { s \in [1..Cardinality(rows) -> rows] :
        /\ \A i, j \in 1..Cardinality(rows) : i # j => s[i] # s[j]
        /\ OrderedByCreatedAt(s) }

\* one entry of posts_data
PostData(row) ==
    [id |-> ToString(row.id), caption |-> row.caption, url |-> row.url,
     file_type |-> row.file_type, file_name |-> row.file_name,
     created_at |-> ToString(row.created_at)]

NoReq == [kind |-> "none", pc |-> "none", sid |-> 0, row |-> NoRow, status |-> 0,
          stage |-> "", committed |-> FALSE, body |-> <<>>]

\* the uploads that have returned 200
Returned == {r \in Reqs : req[r].kind = "upload" /\ req[r].pc = "done" /\ req[r].status = 200}

\* requests come in slot order, each slot serving one request
Fresh(r) == req[r].kind = "none" /\ (IF r = 1 THEN TRUE ELSE req[r - 1].kind # "none")

\* get_async_session up to the yield: async_session_maker() makes a new
\* session, which the request holds
get_async_session_enter(r) ==
    /\ Fresh(r)
    /\ sids' = sids + 1
    /\ open' = open \cup {sids + 1}

\* a dependency that closes the session only when the handler returned
get_async_session_exit_leak(r, status) ==
    open' = IF status = 200 THEN open \ {req[r].sid} ELSE open

\* get_async_session after the yield: the async with block is left, by return
\* or by exception, and the session is closed
get_async_session_exit(r, status) ==
    open' = open \ {req[r].sid}

\* the end of a request: the handler returns or raises, and the dependency is
\* left; a new_post that was not committed is gone with the handler
Finish(r, status, stage, body) ==
    /\ req' = [req EXCEPT ![r].status = status, ![r].stage = stage, ![r].pc = "done",
                          ![r].body = body,
                          ![r].row = IF req[r].committed THEN @ ELSE NoRow]
    /\ get_async_session_exit(r, status)

\* the values of uuid.uuid4() that some row holds
Drawn == {req[r].row.id : r \in Reqs} \ {0}

\* uuid.uuid4() returns a value some row holds or one that none holds; the
\* values are interchangeable, so the latter is the least such value
Uuid4(uuid) ==
    \/ uuid \in Drawn
    \/ uuid \notin Drawn /\ \A other \in UUIDs \ Drawn : uuid <= other

\* datetime.utcnow() returns the instant of its last call or a later one. Only
\* the order of the created_at values is observed, so a later instant is the
\* next in the count.
Utcnow(t) == t = now \/ t = now + 1

\* POST /files/upload up to the INSERT: the session is opened, new_post is
\* built and added, and session.commit() flushes it, which draws the defaults
upload_file_begin(r, file, caption, uuid, t) ==
    /\ get_async_session_enter(r)
    /\ Uuid4(uuid)
    /\ Utcnow(t)
    /\ now' = t
    /\ req' = [req EXCEPT ![r] =
                 [NoReq EXCEPT !.kind = "upload", !.pc = "flushed", !.sid = sids + 1,
                               !.row = WithDefaults(NewPost(file, caption), uuid, t)]]
    /\ UNCHANGED <<table, commits, listing>>
    /\ UNCHANGED postVars

\* session.commit(), the INSERT and COMMIT succeed: the row is visible
upload_file_commit(r) ==
    /\ req[r].kind = "upload" /\ req[r].pc = "flushed"
    /\ InsertAllowed(req[r].row, table)
    /\ table' = table \cup {req[r].row}
    /\ commits' = Append(commits, r)
    /\ req' = [req EXCEPT ![r].committed = TRUE, ![r].pc = "refresh"]
    /\ UNCHANGED <<now, sids, open, listing>>
    /\ UNCHANGED postVars

\* a failed commit that leaves the inserted row behind
upload_file_commit_fails_norollback(r) ==
    /\ req[r].kind = "upload" /\ req[r].pc = "flushed"
    /\ table' = table \cup {req[r].row}
    /\ Finish(r, 500, "commit", <<>>)
    /\ UNCHANGED <<now, sids, commits, listing>>
    /\ UNCHANGED postVars

\* session.commit() raises (the primary key is taken, or the store fails):
\* the transaction is rolled back and the request ends with a 500
upload_file_commit_fails(r) ==
    /\ req[r].kind = "upload" /\ req[r].pc = "flushed"
    /\ Finish(r, 500, "commit", <<>>)
    /\ UNCHANGED <<table, now, sids, commits, listing>>
    /\ UNCHANGED postVars

\* session.refresh(new_post) succeeds and the handler returns {id, caption, url}
upload_file_return(r) ==
    /\ req[r].kind = "upload" /\ req[r].pc = "refresh"
    /\ Finish(r, 200, "", [id |-> req[r].row.id, caption |-> req[r].row.caption,
                           url |-> req[r].row.url])
    /\ UNCHANGED <<table, now, sids, commits, listing>>
    /\ UNCHANGED postVars

\* session.refresh(new_post) raises: the request ends with a 500
upload_file_refresh_fails(r) ==
    /\ req[r].kind = "upload" /\ req[r].pc = "refresh"
    /\ Finish(r, 500, "refresh", <<>>)
    /\ UNCHANGED <<table, now, sids, commits, listing>>
    /\ UNCHANGED postVars

\* the request is aborted while the handler awaits the store: the handler is
\* cancelled, an uncommitted transaction is rolled back, and no response is
\* sent (status 499 stands for that)
abort(r) ==
    /\ req[r].pc \in {"flushed", "refresh", "query"}
    /\ Finish(r, 499, "abort", <<>>)
    /\ UNCHANGED <<table, now, sids, commits, listing>>
    /\ UNCHANGED postVars

\* GET /files: the session is opened
get_files_begin(r) ==
    /\ get_async_session_enter(r)
    /\ req' = [req EXCEPT ![r] = [NoReq EXCEPT !.kind = "list", !.pc = "query",
                                               !.sid = sids + 1]]
    /\ UNCHANGED <<table, now, commits, listing>>
    /\ UNCHANGED postVars

\* session.execute(select(Post).order_by(Post.created_at.desc())), the
\* building of posts_data and the return
get_files(r) ==
    /\ req[r].kind = "list" /\ req[r].pc = "query"
    /\ \E posts \in QueryResults(table) :
         /\ Finish(r, 200, "", <<>>)
         /\ listing' = [posts |-> posts,
                        body |-> [i \in 1..Len(posts) |-> PostData(posts[i])],
                        rows |-> table, commits |-> commits, returned |-> Returned]
    /\ UNCHANGED <<table, now, sids, commits>>
    /\ UNCHANGED postVars

\* session.execute raises: the request ends with a 500
get_files_fails(r) ==
    /\ req[r].kind = "list" /\ req[r].pc = "query"
    /\ Finish(r, 500, "query", <<>>)
    /\ UNCHANGED <<table, now, sids, commits, listing>>
    /\ UNCHANGED postVars

InitFiles ==
    /\ table = {}
    /\ now = 0
    /\ sids = 0
    /\ open = {}
    /\ req = [r \in Reqs |-> NoReq]
    /\ commits = <<>>
    /\ listing = <<>>

Init == InitPosts /\ InitFiles

\* The worker threads run the handlers in any interleaving.
NextPosts ==
    \/ \E limit \in Limits : get_posts(limit)
    \/ \E id \in Ids : get_post(id)
    \/ \E body \in Bodies : create_post_invalid(body)
    \/ \E t \in Threads, body \in Bodies : create_post_begin(t, body)
    \/ \E t \in Threads : create_post_key(t)
    \/ \E t \in Threads : create_post_store(t)

PostsSpec == Init /\ [][NextPosts]_vars

\* The requests to the file store run as coroutines of one event loop, which
\* switches between them where they await the store.
NextFiles ==
    \/ \E r \in Reqs, file \in Files, caption \in Captions, uuid \in UUIDs, t \in Times :
         upload_file_begin(r, file, caption, uuid, t)
    \/ \E r \in Reqs : upload_file_commit(r)
    \/ \E r \in Reqs : upload_file_commit_fails(r)
    \/ \E r \in Reqs : upload_file_return(r)
    \/ \E r \in Reqs : upload_file_refresh_fails(r)
    \/ \E r \in Reqs : get_files_begin(r)
    \/ \E r \in Reqs : get_files(r)
    \/ \E r \in Reqs : get_files_fails(r)
    \/ \E r \in Reqs : abort(r)

FilesSpec == Init /\ [][NextFiles]_vars

\* One request at a time: a create_post starts only when none is under way.
Quiet == \A t \in Threads : pc[t] = "idle"

NextPostsSeq ==
    \/ \E limit \in Limits : get_posts(limit)
    \/ \E id \in Ids : get_post(id)
    \/ \E body \in Bodies : create_post_invalid(body)
    \/ \E t \in Threads, body \in Bodies : Quiet /\ create_post_begin(t, body)
    \/ \E t \in Threads : create_post_key(t)
    \/ \E t \in Threads : create_post_store(t)

PostsSeqSpec == Init /\ [][NextPostsSeq]_vars

----------------------------------------------------------------------------
(* Properties of the Post Registry. *)

Min(a, b) == IF a < b THEN a ELSE b

\* a body that lacks a field
MissingField(body) == "title" \notin DOMAIN body \/ "content" \notin DOMAIN body

\* a body with a field that is the empty string
EmptyField(body) ==
    \/ ("title" \in DOMAIN body /\ body.title = "")
    \/ ("content" \in DOMAIN body /\ body.content = "")

\* C1: with creates running concurrently, no two creates get the same id, and
\* after k creates have returned the registry holds exactly 10 + k entries
\* (no created post has been overwritten by another create).
C1_AtomicNextId ==
    /\ \A i, j \in 1..Len(created) : i # j => created[i].key # created[j].key
    /\ Len(text_posts) = SeedCount + Len(created)

\* C2: with one request at a time, a create stores the post under
\* (max id just before the call) + 1, a following get of that id returns
\* exactly the created title and content, and every earlier entry keeps its
\* id, title and content.
C2_CreateThenGet ==
    /\ [](\A i \in 1..Len(created) :
            /\ created[i].key = created[i].maxAtCall + 1
            /\ DictHas(text_posts, created[i].key)
            /\ DictGet(text_posts, created[i].key) = created[i].post)
    /\ [][(response'.op = "get" /\ get_post(response'.arg)
               /\ \E i \in 1..Len(created) : created[i].key = response'.arg)
            => /\ response'.status = 200
               /\ \A i \in 1..Len(created) :
                    created[i].key = response'.arg => response'.body = created[i].post]_vars
    /\ [][\A t \in Threads :
            create_post_store(t)
            => /\ Len(text_posts') = Len(text_posts) + 1
               /\ \A i \in 1..Len(text_posts) : text_posts'[i] = text_posts[i]]_vars

C2_Witness ==
    /\ Len(created) = 2
    /\ response.op = "get"
    /\ response.status = 200
    /\ response.arg = created[2].key
    /\ response.arg = SeedCount + 2
    /\ response.body = created[2].post

\* C3: in every reachable state, under any interleaving of the handlers, the
\* ids of the registry are unique and the registry holds at least the 10
\* seed entries.
C3_UniqueNonEmpty ==
    /\ Cardinality(DictKeys(text_posts)) = Len(text_posts)
    /\ Len(text_posts) >= SeedCount
    /\ \A i \in 1..SeedCount : DictHas(text_posts, i)

\* two creates have returned, both stored under the same key
C3_Witness ==
    /\ Len(created) = 2
    /\ created[1].key = created[2].key
    /\ Len(text_posts) = SeedCount + 1

\* C4: get(id) returns the stored post for an id that is present, the exact
\* seeded title and content for every id in 1..10, and a 404 with detail
\* "Post not found." for an id that is absent; the registry is unchanged.
C4_GetPost ==
    [][(response'.op = "get" /\ get_post(response'.arg))
         => LET id == response'.arg
            IN  /\ text_posts' = text_posts
                /\ IF \E i \in 1..Len(text_posts) : text_posts[i].key = id
                   THEN /\ response'.status = 200
                        /\ \A i \in 1..Len(text_posts) :
                             text_posts[i].key = id => response'.body = text_posts[i].value
                        /\ id \in 1..SeedCount => response'.body = SeedPosts[id]
                   ELSE /\ response'.status = 404
                        /\ response'.body = [detail |-> "Post not found."]]_vars

\* a 404 for an id beyond the entries, after a create has returned
C4_Witness ==
    /\ Len(created) >= 1
    /\ response.op = "get"
    /\ response.status = 404
    /\ response.arg > Len(text_posts)
    /\ response.body.detail = "Post not found."

\* C5: with one request at a time, for a limit in [1,100], list(limit)
\* returns min(limit, total) entries, the first entries of the registry: the
\* seed posts 1..10 in seed order, then the created posts in the order they
\* were created; the registry is unchanged.
C5_ListPosts ==
    [][(response'.op = "list" /\ get_posts(response'.arg)
          /\ response'.arg >= 1 /\ response'.arg <= 100)
         => /\ text_posts' = text_posts
            /\ response'.status = 200
            /\ Len(response'.body) = Min(response'.arg, Len(text_posts))
            /\ Len(text_posts) = SeedCount + Len(created)
            /\ \A i \in 1..Len(response'.body) :
                 /\ i <= SeedCount => response'.body[i] = SeedPosts[i]
                 /\ i > SeedCount => response'.body[i] = created[i - SeedCount].post]_vars

\* a listing cut by the registry's size, not by the limit, after two creates
C5_Witness ==
    /\ Len(created) = 2
    /\ response.op = "list"
    /\ response.status = 200
    /\ response.arg > Len(text_posts)
    /\ Len(response.body) = Len(text_posts)
    /\ Len(response.body) > SeedCount

\* C6, as claimed: a create whose title or content is missing or is the
\* empty string is rejected with a validation error, no id is assigned and
\* the registry is unchanged.
C6_RejectsMissingOrEmpty ==
    [][\A t \in Threads, body \in Bodies :
         (((pc'[t] = "key" /\ create_post_begin(t, body))
             \/ (response'.op = "create" /\ create_post_invalid(body)))
            /\ (MissingField(body) \/ EmptyField(body)))
         => /\ response'.op = "create"
            /\ response'.status = 422
            /\ UNCHANGED <<text_posts, pc, key, created>>]_vars

\* C6, amended: a create whose title or content is missing is rejected with a
\* validation error, no id is assigned and the registry is unchanged; a
\* create whose fields are both present is accepted, the empty string
\* included, and what is stored is the title and content as given.
C6_RejectsMissingOnly ==
    /\ [][\A t \in Threads, body \in Bodies :
            ((pc'[t] = "key" /\ create_post_begin(t, body))
               \/ (response'.op = "create" /\ create_post_invalid(body)))
            => IF MissingField(body)
               THEN /\ response'.op = "create"
                    /\ response'.status = 422
                    /\ UNCHANGED <<text_posts, pc, key, created>>
               ELSE /\ pc'[t] = "key"
                    /\ new_post'[t].title = body.title
                    /\ new_post'[t].content = body.content]_vars
    /\ [][\A t \in Threads :
            create_post_store(t)
            => /\ DictGet(text_posts', key[t]) = new_post[t]
               /\ response'.status = 201]_vars

\* a post with an empty title is in the registry
C6_Witness ==
    \E i \in 1..Len(text_posts) :
        /\ text_posts[i].key > SeedCount
        /\ text_posts[i].value.title = ""

----------------------------------------------------------------------------
(* Properties of the File Metadata Store. *)

Uploads == {r \in Reqs : req[r].kind = "upload"}
Done == {r \in Reqs : req[r].pc = "done"}
InFlight == {r \in Reqs : req[r].pc \in {"flushed", "refresh", "query"}}

\* the requests of a sequence
Range(s) == {s[i] : i \in 1..Len(s)}

\* the place of request r's row in the last listing (0 when it is not there)
Place(r) ==
    IF \E i \in 1..Len(listing.posts) : listing.posts[i].id = req[r].row.id
    THEN CHOOSE i \in 1..Len(listing.posts) : listing.posts[i].id = req[r].row.id
    ELSE 0

\* request v committed before request u, as seen by the last listing
CommittedBefore(v, u) ==
    \E i, j \in 1..Len(listing.commits) :
        i < j /\ listing.commits[i] = v /\ listing.commits[j] = u

\* C7, as claimed: whenever an upload ends with an error (at the commit or at
\* the refresh after it), no new file record of that upload is visible.
C7_NoPartialFailure ==
    \A r \in Uploads \cap Done :
        req[r].status = 500 => ~(req[r].committed /\ req[r].row \in table)

\* C7, amended: an upload that fails at the insert/commit leaves the table as
\* it was; an upload that fails at the refresh after the commit has committed
\* its record, which stays visible; either way the request ends with a 500,
\* and no request commits more than once (nothing is retried).
C7_FailureAtCommitOnly ==
    /\ [](\A r \in Uploads \cap Done :
            req[r].status = 500 =>
                /\ req[r].stage \in {"commit", "refresh"}
                /\ req[r].stage = "commit" => r \notin Range(commits)
                /\ req[r].stage = "refresh" =>
                     r \in Range(commits) /\ req[r].row \in table)
    /\ [](/\ Cardinality(table) = Len(commits)
          /\ Cardinality(Range(commits)) = Len(commits))
    /\ [][\A r \in Reqs :
            (req[r].pc = "flushed" /\ req'[r].pc = "done")
            => table' = table /\ commits' = commits]_vars

\* an upload has ended with a 500 at the refresh and its record is in the table
C7_Witness ==
    \E r \in Uploads \cap Done :
        /\ req[r].status = 500
        /\ req[r].stage = "refresh"
        /\ req[r].row \in table

\* C8: every request has a session of its own, open while the request runs
\* and closed once the request has finished, whatever the exit path (return,
\* handler error, commit failure, abort); no session is held by two requests.
C8_SessionPerRequest ==
    /\ \A r \in Done : req[r].sid \notin open
    /\ \A r \in InFlight : req[r].sid \in open
    /\ open \subseteq {req[r].sid : r \in InFlight}
    /\ \A r1, r2 \in Done \cup InFlight : r1 # r2 => req[r1].sid # req[r2].sid

\* a request ended with an error, another was aborted, a third is running
C8_Witness ==
    \E r1, r2, r3 \in Reqs :
        /\ req[r1].pc = "done" /\ req[r1].status = 500 /\ req[r1].stage = "commit"
        /\ req[r2].pc = "done" /\ req[r2].status = 499
        /\ req[r3].pc = "refresh"
        /\ open = {req[r3].sid}

\* C9, as claimed: an upload that returned has url = "/files/" + filename, and
\* a listing made after it returns its record ahead of every record committed
\* earlier, overlapping uploads and equal created_at values included.
C9_LatestFirst ==
    listing # <<>> =>
        \A u \in listing.returned :
            /\ req[u].body.url = "/files/" \o req[u].row.file_name
            /\ Place(u) > 0
            /\ \A v \in Range(listing.commits) :
                 CommittedBefore(v, u) => Place(u) < Place(v)

\* C9, amended: an upload that returned has url = "/files/" + filename, and a
\* listing made after it holds its record, ahead of every record whose
\* created_at is strictly earlier.
C9_AheadOfEarlier ==
    /\ \A u \in Returned : req[u].body.url = "/files/" \o req[u].row.file_name
    /\ listing # <<>> =>
         \A u \in listing.returned :
             /\ Place(u) > 0
             /\ \A i \in 1..Len(listing.posts) :
                  listing.posts[i].created_at < req[u].row.created_at => Place(u) < i

\* an upload that returned is listed behind a record committed before it,
\* which drew a later created_at
C9_Witness ==
    /\ listing # <<>>
    /\ \E u \in listing.returned, v \in Range(listing.commits) :
         /\ CommittedBefore(v, u)
         /\ Place(v) > 0 /\ Place(v) < Place(u)
         /\ req[v].row.created_at > req[u].row.created_at

\* C10: a listing returns exactly one record per committed upload, with
\* distinct ids, none lost and none twice, in descending created_at; when
\* every commit is that of an upload that returned, that is as many records
\* as uploads returned; and a record once listed is in every later listing
\* with the same field values.
C10_RoundTrip ==
    /\ [](listing # <<>> =>
            /\ Len(listing.body) = Len(listing.commits)
            /\ \A i, j \in 1..Len(listing.body) :
                 i # j => listing.body[i].id # listing.body[j].id
            /\ \A r \in Range(listing.commits) :
                 Cardinality({i \in 1..Len(listing.body) :
                                listing.body[i] = PostData(req[r].row)}) = 1
            /\ \A i, j \in 1..Len(listing.posts) :
                 i < j => listing.posts[i].created_at >= listing.posts[j].created_at
            /\ listing.returned \subseteq Range(listing.commits)
            /\ Range(listing.commits) \subseteq listing.returned
                 => Len(listing.body) = Cardinality(listing.returned))
    /\ [][(listing # <<>> /\ listing' # listing)
            => \A i \in 1..Len(listing.body) :
                 \E j \in 1..Len(listing'.body) : listing'.body[j] = listing.body[i]]_vars

\* two uploads have returned and a listing made after them holds both
C10_Witness ==
    /\ listing # <<>>
    /\ Cardinality(listing.returned) = 2
    /\ Len(listing.body) = 2
    /\ Range(listing.commits) = listing.returned

====
